---- MODULE Spec2Model ----
(***************************************************************************)
(* picamera2 examples: the ePTZ crop calculators (examples/eptz_*.py,      *)
(* examples/fpv_eptz_demo.py) and the overlay helper                       *)
(* (picamera2_contrib/overlay_helper.py).                                  *)
(*                                                                         *)
(* Python floats are modelled as rationals <<numerator, denominator>>      *)
(* with a positive denominator; int() is truncation toward zero and // is  *)
(* floor division.  The crop calculators are evaluated exactly; the float  *)
(* arithmetic on the controller state (ePTZController) rounds every result *)
(* to the nearest float of Precision significant bits, ties to even.       *)
(***************************************************************************)
EXTENDS Integers, Sequences, FiniteSets, TLC

VARIABLES
    \* ---- ePTZ crop calculators: the arguments and what each one returned
    sensor_size,      \* <<sensor_width, sensor_height>>
    output_size,      \* <<output_width, output_height>>
    zoom,             \* rational zoom factor
    pan_x,            \* rational pan fraction
    pan_y,            \* rational pan fraction
    crops,            \* implementation name -> what its call returned
    scaler_crop,      \* the ScalerCrop control last sent to the camera
    \* ---- OverlayHelper
    CV2_AVAILABLE,    \* module constant set by the import guard
    heap,             \* the numpy buffers allocated so far (sequence of canvases)
    overlay,          \* self.overlay: index of the helper's buffer in heap
    elements,         \* self.elements: name -> OverlayElement or NoElement
    dirty_regions,    \* self.dirty_regions: sequence of <<x, y, width, height>>
    update_count,     \* self._update_count
    array,            \* what the display pipeline holds from get_array() (0: nothing yet)
    last_call,        \* the call that produced this state, with what it saw on entry
    \* ---- ePTZController (its zoom_factor, pan_x, pan_y are zoom, pan_x, pan_y above)
    smooth,           \* the smooth_zoom_to / smooth_pan_to loop: locals and position
    ptz_call,         \* the controller method called last and the crops it has applied
    \* ---- picamera2_contrib/platform.py
    videodev2,        \* TRUE iff "import videodev2" finds the module
    devices,          \* /dev/video0 .. : what each device node is like
    platform_pc,      \* where the import of platform.py stands
    num,              \* the loop variable of the scan
    _platform,        \* the module global
    probe_raised,     \* an exception was raised while opening or querying a device
    got_platform,     \* what get_platform() returned last ("none": not called yet)
    \* ---- examples/remote_processing_pool.py, examples/remote_processing_example.py
    main_pc,          \* where the main program stands
    main_sent,        \* the requests sent to the pool so far
    futures,          \* the list (pool) or the queue.Queue (example) of futures
    worker_pc,        \* worker -> "start" (init not yet run) or "ready"
    inbox,            \* worker -> the requests handed to it and not yet run
    counter,          \* worker -> the global "counter" of its process
    results,          \* future -> Pending or <<result>>
    handled,          \* worker -> the requests it has run
    counts,           \* the dict "counts"
    gather_pc,        \* where the gather_results thread stands
    gather_i,         \* its loop variable i
    future,           \* its local "future"
    received,         \* the results it has printed, in order
    \* ---- examples/eptz_recording.py
    recording         \* the sequence being recorded, its segment and loop position

crop_vars == <<sensor_size, output_size, zoom, pan_x, pan_y, crops, scaler_crop>>
overlay_vars == <<CV2_AVAILABLE, heap, overlay, elements, dirty_regions, update_count,
                  array, last_call>>
ptz_vars == <<smooth, ptz_call>>
platform_vars == <<videodev2, devices, platform_pc, num, _platform, probe_raised,
                   got_platform>>
pool_vars == <<main_pc, main_sent, futures, worker_pc, inbox, counter, results, handled,
               counts, gather_pc, gather_i, future, received>>
recording_vars == <<recording>>
vars == <<sensor_size, output_size, zoom, pan_x, pan_y, crops, scaler_crop,
          CV2_AVAILABLE, heap, overlay, elements, dirty_regions, update_count,
          array, last_call, smooth, ptz_call,
          videodev2, devices, platform_pc, num, _platform, probe_raised, got_platform,
          main_pc, main_sent, futures, worker_pc, inbox, counter, results, handled,
          counts, gather_pc, gather_i, future, received, recording>>

\* what each component leaves alone
other_vars == <<platform_vars, pool_vars, recording_vars>>
not_crop_vars == <<overlay_vars, ptz_vars, other_vars>>
not_overlay_vars == <<crop_vars, ptz_vars, other_vars>>
not_ptz_vars == <<overlay_vars, other_vars>>
not_platform_vars == <<crop_vars, overlay_vars, ptz_vars, pool_vars, recording_vars>>
not_pool_vars == <<crop_vars, overlay_vars, ptz_vars, platform_vars, recording_vars>>
not_recording_vars == <<overlay_vars, ptz_vars, platform_vars, pool_vars>>

(***************************************************************************)
(* Arithmetic helpers                                                      *)
(***************************************************************************)
Min(a, b) == IF a < b THEN a ELSE b
Max(a, b) == IF a > b THEN a ELSE b
Abs(a) == IF a < 0 THEN -a ELSE a

\* int(a / b) for b > 0: Python's int() truncates toward zero
IntDiv(a, b) == IF a >= 0 THEN a \div b ELSE -((-a) \div b)

\* EvenDown without the rounding step
EvenDown_skipped(v) == v

\* (v // 2) * 2: Python's // floors
EvenDown(v) == (v \div 2) * 2

(***************************************************************************)
(* Bounds of the crop inputs                                               *)
(***************************************************************************)
MinSensor == 2
MaxSensorW == 8
MaxSensorH == 6
ZoomDen == 2
MaxZoomNum == 8
PanDen == 4

SensorSizes == (MinSensor..MaxSensorW) \X (MinSensor..MaxSensorH)
OutputSizes == {<<4, 3>>, <<16, 9>>, <<1, 1>>, <<3, 4>>}
\* every positive zoom k/ZoomDen up to MaxZoomNum/ZoomDen, below 1.0 included
Zooms == {<<n, ZoomDen>> : n \in 1..MaxZoomNum}
\* pan fractions k/PanDen from just below 0.0 to just above 1.0
Pans == {<<n, PanDen>> : n \in (-1)..(PanDen + 1)}

Rect(x, y, w, h) == [status |-> "ok", rect |-> <<x, y, w, h>>]
ZeroDivisionError == [status |-> "ZeroDivisionError", rect |-> <<0, 0, 0, 0>>]
NotCalled == [status |-> "not called", rect |-> <<0, 0, 0, 0>>]

(***************************************************************************)
(* The crop calculators.  ss = <<sensor_width, sensor_height>>,            *)
(* os = <<output_width, output_height>>, z, px, py rationals.              *)
(***************************************************************************)

\* ePTZController.calculate_crop without the "maintain aspect ratio" step
ePTZController_calculate_crop_no_aspect(ss, os, z, px, py) ==
    LET cw == EvenDown(Min(IntDiv(ss[1] * z[2], z[1]), ss[1]))
        ch == EvenDown(Min(IntDiv(ss[2] * z[2], z[1]), ss[2]))
        x0 == EvenDown(IntDiv((ss[1] - cw) * px[1], px[2]))
        y0 == EvenDown(IntDiv((ss[2] - ch) * py[1], py[2]))
    IN  Rect(Max(0, Min(x0, ss[1] - cw)), Max(0, Min(y0, ss[2] - ch)), cw, ch)

\* examples/eptz_demo.py, ePTZController.calculate_crop
ePTZController_calculate_crop(ss, os, z, px, py) ==
    LET sw == ss[1]   sh == ss[2]   ow == os[1]   oh == os[2]
        cw0 == IntDiv(sw * z[2], z[1])
        ch0 == IntDiv(sh * z[2], z[1])
        \* output_aspect > sensor_aspect
        wider == ow * sh > sw * oh
        cw1 == IF wider THEN cw0 ELSE IntDiv(ch0 * ow, oh)
        ch1 == IF wider THEN IntDiv(cw0 * oh, ow) ELSE ch0
        cw2 == Min(cw1, sw)
        ch2 == Min(ch1, sh)
        max_x == sw - cw2
        max_y == sh - ch2
        x0 == EvenDown(IntDiv(max_x * px[1], px[2]))
        y0 == EvenDown(IntDiv(max_y * py[1], py[2]))
        cw == EvenDown(cw2)
        ch == EvenDown(ch2)
        x == Max(0, Min(x0, sw - cw))
        y == Max(0, Min(y0, sh - ch))
    IN  Rect(x, y, cw, ch)

\* examples/fpv_eptz_demo.py, calculate_crop: no min() and no final clamp
fpv_eptz_demo_calculate_crop(ss, os, z, px, py) ==
    LET sw == ss[1]   sh == ss[2]   ow == os[1]   oh == os[2]
        cw0 == IntDiv(sw * z[2], z[1])
        ch0 == IntDiv(sh * z[2], z[1])
        wider == ow * sh > sw * oh
        cw1 == IF wider THEN cw0 ELSE IntDiv(ch0 * ow, oh)
        ch1 == IF wider THEN IntDiv(cw0 * oh, ow) ELSE ch0
        max_x == sw - cw1
        max_y == sh - ch1
        x == EvenDown(IntDiv(max_x * px[1], px[2]))
        y == EvenDown(IntDiv(max_y * py[1], py[2]))
    IN  Rect(x, y, EvenDown(cw1), EvenDown(ch1))

\* examples/eptz_recording.py, calculate_crop: the branch compares the truncated
\* crop's own aspect with the output aspect; crop_width / crop_height raises
\* ZeroDivisionError when crop_height is 0
eptz_recording_calculate_crop(ss, os, z, px, py) ==
    LET sensor_width == ss[1]   sensor_height == ss[2]
        output_width == os[1]   output_height == os[2]
        cw0 == IntDiv(sensor_width * z[2], z[1])
        ch0 == IntDiv(sensor_height * z[2], z[1])
        cropWider == cw0 * output_height > output_width * ch0
        cw1 == IF cropWider THEN IntDiv(ch0 * output_width, output_height) ELSE cw0
        ch1 == IF cropWider THEN ch0 ELSE IntDiv(cw0 * output_height, output_width)
        x0 == EvenDown(IntDiv((sensor_width - cw1) * px[1], px[2]))
        y0 == EvenDown(IntDiv((sensor_height - ch1) * py[1], py[2]))
        cw == EvenDown(cw1)
        ch == EvenDown(ch1)
        x == Max(0, Min(x0, sensor_width - cw))
        y == Max(0, Min(y0, sensor_height - ch))
    IN  IF ch0 = 0 THEN ZeroDivisionError ELSE Rect(x, y, cw, ch)

\* ObjectTracker.calculate_crop with the width left as truncated (not made even)
ObjectTracker_calculate_crop_odd_width(ss, os, z, px, py) ==
    LET crop_width == IntDiv(ss[1] * z[2], z[1])
        crop_height == IntDiv(ss[2] * z[2], z[1])
        reduceWidth == crop_width * os[2] > os[1] * crop_height
        w == IF reduceWidth THEN IntDiv(crop_height * os[1], os[2]) ELSE crop_width
        h == IF reduceWidth THEN crop_height ELSE IntDiv(crop_width * os[2], os[1])
        x == EvenDown(IntDiv((ss[1] - w) * px[1], px[2]))
        y == EvenDown(IntDiv((ss[2] - h) * py[1], py[2]))
    IN  IF crop_height = 0 THEN ZeroDivisionError
        ELSE Rect(Max(0, Min(x, ss[1] - w)), Max(0, Min(y, ss[2] - EvenDown(h))),
                  w, EvenDown(h))

\* examples/eptz_tracking.py, ObjectTracker.calculate_crop
ObjectTracker_calculate_crop(ss, os, z, px, py) ==
    LET crop_width == IntDiv(ss[1] * z[2], z[1])
        crop_height == IntDiv(ss[2] * z[2], z[1])
        reduceWidth == crop_width * os[2] > os[1] * crop_height
        w == IF reduceWidth THEN IntDiv(crop_height * os[1], os[2]) ELSE crop_width
        h == IF reduceWidth THEN crop_height ELSE IntDiv(crop_width * os[2], os[1])
        x == EvenDown(IntDiv((ss[1] - w) * px[1], px[2]))
        y == EvenDown(IntDiv((ss[2] - h) * py[1], py[2]))
    IN  IF crop_height = 0 THEN ZeroDivisionError
        ELSE Rect(Max(0, Min(x, ss[1] - EvenDown(w))),
                  Max(0, Min(y, ss[2] - EvenDown(h))),
                  EvenDown(w), EvenDown(h))

\* set_crop with pan_x and pan_y exchanged
eptz_simple_crop_pans_swapped(ss, os, z, px, py) ==
    LET cw0 == IntDiv(ss[1] * z[2], z[1])
        ch0 == IntDiv(ss[2] * z[2], z[1])
        wider == cw0 * os[2] > os[1] * ch0
        cw1 == IF wider THEN IntDiv(ch0 * os[1], os[2]) ELSE cw0
        ch1 == IF wider THEN ch0 ELSE IntDiv(cw0 * os[2], os[1])
        x == EvenDown(IntDiv((ss[1] - cw1) * py[1], py[2]))
        y == EvenDown(IntDiv((ss[2] - ch1) * px[1], px[2]))
    IN  IF ch0 = 0 THEN ZeroDivisionError
        ELSE Rect(x, y, EvenDown(cw1), EvenDown(ch1))

\* examples/eptz_simple.py, set_crop: the rectangle it computes (no final clamp);
\* sensor_width, sensor_height, output_width, output_height are module globals
eptz_simple_crop(ss, os, z, px, py) ==
    LET cw0 == IntDiv(ss[1] * z[2], z[1])
        ch0 == IntDiv(ss[2] * z[2], z[1])
        \* crop_aspect > output_aspect
        wider == cw0 * os[2] > os[1] * ch0
        cw1 == IF wider THEN IntDiv(ch0 * os[1], os[2]) ELSE cw0
        ch1 == IF wider THEN ch0 ELSE IntDiv(cw0 * os[2], os[1])
        x == EvenDown(IntDiv((ss[1] - cw1) * px[1], px[2]))
        y == EvenDown(IntDiv((ss[2] - ch1) * py[1], py[2]))
    IN  IF ch0 = 0 THEN ZeroDivisionError
        ELSE Rect(x, y, EvenDown(cw1), EvenDown(ch1))

Impls == {"eptz_demo", "eptz_recording", "fpv_eptz_demo", "eptz_simple", "eptz_tracking"}

(***************************************************************************)
(* Crop specification: the arguments are drawn once, then each             *)
(* implementation is called on them, in the order listed in CallOrder.     *)
(***************************************************************************)
CallOrder == <<"eptz_demo", "eptz_recording", "fpv_eptz_demo", "eptz_simple", "eptz_tracking">>

\* the implementation whose call comes next: all earlier ones have returned
IsNext(impl) ==
    \E i \in 1..Len(CallOrder) :
        /\ CallOrder[i] = impl
        /\ crops[impl].status = "not called"
        /\ \A j \in 1..(i - 1) : crops[CallOrder[j]].status # "not called"

Returned(impl, r) == crops' = [crops EXCEPT ![impl] = r]

Call_ePTZController_calculate_crop ==
    /\ IsNext("eptz_demo")
    /\ Returned("eptz_demo",
                ePTZController_calculate_crop(sensor_size, output_size, zoom, pan_x, pan_y))
    /\ UNCHANGED <<sensor_size, output_size, zoom, pan_x, pan_y, scaler_crop>>
    /\ UNCHANGED not_crop_vars

Call_eptz_recording_calculate_crop ==
    /\ IsNext("eptz_recording")
    /\ Returned("eptz_recording",
                eptz_recording_calculate_crop(sensor_size, output_size, zoom, pan_x, pan_y))
    /\ UNCHANGED <<sensor_size, output_size, zoom, pan_x, pan_y, scaler_crop>>
    /\ UNCHANGED not_crop_vars

Call_fpv_eptz_demo_calculate_crop ==
    /\ IsNext("fpv_eptz_demo")
    /\ Returned("fpv_eptz_demo",
                fpv_eptz_demo_calculate_crop(sensor_size, output_size, zoom, pan_x, pan_y))
    /\ UNCHANGED <<sensor_size, output_size, zoom, pan_x, pan_y, scaler_crop>>
    /\ UNCHANGED not_crop_vars

\* set_crop also sends the rectangle to the camera (picam2.set_controls), unless
\* the division raised first
set_crop ==
    /\ IsNext("eptz_simple")
    /\ LET r == eptz_simple_crop(sensor_size, output_size, zoom, pan_x, pan_y)
       IN  /\ Returned("eptz_simple", r)
           /\ scaler_crop' = IF r.status = "ok" THEN r ELSE scaler_crop
    /\ UNCHANGED <<sensor_size, output_size, zoom, pan_x, pan_y>>
    /\ UNCHANGED not_crop_vars

Call_ObjectTracker_calculate_crop ==
    /\ IsNext("eptz_tracking")
    /\ Returned("eptz_tracking",
                ObjectTracker_calculate_crop(sensor_size, output_size, zoom, pan_x, pan_y))
    /\ UNCHANGED <<sensor_size, output_size, zoom, pan_x, pan_y, scaler_crop>>
    /\ UNCHANGED not_crop_vars

NextCrop ==
    \/ Call_ePTZController_calculate_crop
    \/ Call_eptz_recording_calculate_crop
    \/ Call_fpv_eptz_demo_calculate_crop
    \/ set_crop
    \/ Call_ObjectTracker_calculate_crop

(***************************************************************************)
(* OverlayHelper (picamera2_contrib/overlay_helper.py)                     *)
(*                                                                         *)
(* A canvas is the array overlay[row][column] of colours, rows and columns *)
(* numbered from 0 in the code and from 1 here; background_color is the    *)
(* colour the constructor fills it with.  Slices follow numpy: a bound     *)
(* past the end is cut to the end and a negative bound counts from it.     *)
(***************************************************************************)
CanvasWidth == 3
CanvasHeight == 2
MaxUpdates == 2
background_color == 0
DefaultThickness == 2
CharWidth == 1
CharHeight == 1
Baseline == 1

Pixels == (0..(CanvasWidth - 1)) \X (0..(CanvasHeight - 1))
\* each element is drawn in a colour of its own, none of them the background
ColourOf(name) == IF name = "a" THEN 1 ELSE 2
Names == {"a", "b"}
Texts == {"AB"}
\* the rectangles drawn: two that overlap, the second cut by the canvas edge
Boxes == {<<0, 0, 2, 1>>, <<1, 0, CanvasWidth, 2>>}
\* axis-parallel segments <<x1, y1, x2, y2>>
Segments == {<<1, CanvasHeight - 1, 1, 0>>}
\* circle centres
Centres == {<<1, 1>>}
\* base-line corners of texts
Corners == {<<0, 1>>}

OverlayElement(x, y, width, height) ==
    [x |-> x, y |-> y, width |-> width, height |-> height, visible |-> TRUE]

get_bounds(e) == <<e.x, e.y, e.width, e.height>>

\* the indices a[lo:hi] selects on an axis of length n
NpSlice(lo, hi, n) ==
    LET from == IF lo < 0 THEN Max(lo + n, 0) ELSE Min(lo, n)
        to == IF hi < 0 THEN Max(hi + n, 0) ELSE Min(hi, n)
    IN  from..(to - 1)

\* the colour of pixel p = <<x, y>>
At(canvas, p) == canvas[p[2] + 1][p[1] + 1]

\* canvas with every pixel (x, y) that satisfies Inside(x, y) set to color
Paint(canvas, Inside(_, _), color) ==
    [r \in 1..CanvasHeight |->
        [c \in 1..CanvasWidth |-> IF Inside(c - 1, r - 1) THEN color ELSE canvas[r][c]]]

\* canvas after  canvas[y1:y2, x1:x2] = color
SliceAssign(canvas, y1, y2, x1, x2, color) ==
    LET cols == NpSlice(x1, x2, CanvasWidth)
        rows == NpSlice(y1, y2, CanvasHeight)
    IN  Paint(canvas, LAMBDA x, y : x \in cols /\ y \in rows, color)

\* _clear_region clearing whole rows: the column bounds are not applied
_clear_region_whole_rows(canvas, x, y, width, height) ==
    LET y1 == Max(0, y)
        y2 == Min(CanvasHeight, y + height)
    IN  IF y2 > y1
        THEN Paint(canvas, LAMBDA px, py : y1 <= py /\ py < y2, background_color)
        ELSE canvas

_clear_region(canvas, x, y, width, height) ==
    LET x1 == Max(0, x)
        y1 == Max(0, y)
        x2 == Min(CanvasWidth, x + width)
        y2 == Min(CanvasHeight, y + height)
    IN  IF x2 > x1 /\ y2 > y1
        THEN SliceAssign(canvas, y1, y2, x1, x2, background_color)
        ELSE canvas

_mark_dirty(regions, bounds) == Append(regions, bounds)

\* "if name in self.elements: self._mark_dirty(*old.get_bounds())"
MarkOldDirty(name) ==
    IF name \in DOMAIN elements
    THEN _mark_dirty(dirty_regions, get_bounds(elements[name]))
    ELSE dirty_regions

\* self.elements[name] = OverlayElement(name, x, y, width, height)
\* storing with dict.setdefault: a name already present keeps its old record
Store_setdefault(name, e) ==
    [n \in (DOMAIN elements) \cup {name} |->
        IF n \in DOMAIN elements THEN elements[n] ELSE e]

Store(name, e) ==
    [n \in (DOMAIN elements) \cup {name} |-> IF n = name THEN e ELSE elements[n]]

\* the drawing part of add_rectangle
DrawRectangle(canvas, x, y, width, height, color, filled, thickness) ==
    LET x1 == Max(0, x)
        y1 == Max(0, y)
        x2 == Min(CanvasWidth, x + width)
        y2 == Min(CanvasHeight, y + height)
        t == thickness
        top == SliceAssign(canvas, y1, y1 + t, x1, x2, color)
        bottom == SliceAssign(top, y2 - t, y2, x1, x2, color)
        left == SliceAssign(bottom, y1, y2, x1, x1 + t, color)
    IN  IF filled
        THEN SliceAssign(canvas, y1, y2, x1, x2, color)
        ELSE SliceAssign(left, y1, y2, x2 - t, x2, color)

\* cv2.line on an axis-parallel segment: the pixels of the segment, both end
\* points included, cut to the canvas (the stroke's widening by thickness is
\* not modelled)
CvLine(canvas, x1, y1, x2, y2, color) ==
    Paint(canvas,
          LAMBDA x, y : /\ Min(x1, x2) <= x /\ x <= Max(x1, x2)
                        /\ Min(y1, y2) <= y /\ y <= Max(y1, y2),
          color)

\* cv2.circle: the disc of the given radius around the centre when filled,
\* else its rim, cut to the canvas
CvCircle(canvas, cx, cy, radius, color, filled) ==
    Paint(canvas,
          LAMBDA x, y :
              LET d2 == (x - cx) * (x - cx) + (y - cy) * (y - cy)
              IN  /\ d2 <= radius * radius
                  /\ (filled \/ d2 > (radius - 1) * (radius - 1) \/ radius = 0),
          color)

\* cv2.getTextSize: <<text_width, text_height, baseline>>
CvGetTextSize(text) == <<Len(text) * CharWidth, CharHeight, Baseline>>

\* cv2.putText with the bottom-left corner of the text at (x, y): the glyph
\* cells above the base line, cut to the canvas
CvPutText(canvas, x, y, text, color) ==
    LET sz == CvGetTextSize(text)
    IN  Paint(canvas,
              LAMBDA px, py : x <= px /\ px < x + sz[1] /\ y - sz[2] <= py /\ py < y,
              color)

Called(op, name) ==
    [op |-> op, name |-> name, known |-> name \in DOMAIN elements, raised |-> FALSE]

\* the call ended in an exception before it returned
Raised(op, name) ==
    [op |-> op, name |-> name, known |-> name \in DOMAIN elements, raised |-> TRUE]

\* what add_rectangle does to the helper (also reached from the add_line and
\* add_circle fallbacks)
RectangleBody(name, x, y, width, height, color, filled, thickness) ==
    /\ dirty_regions' = MarkOldDirty(name)
    /\ elements' = Store(name, OverlayElement(x, y, width, height))
    /\ heap' = [heap EXCEPT ![overlay] =
                    DrawRectangle(heap[overlay], x, y, width, height, color, filled, thickness)]
    /\ update_count' = update_count + 1

add_rectangle(name, x, y, width, height, color, filled, thickness) ==
    /\ update_count < MaxUpdates
    /\ RectangleBody(name, x, y, width, height, color, filled, thickness)
    /\ last_call' = Called("add_rectangle", name)
    /\ UNCHANGED <<CV2_AVAILABLE, overlay, array>>
    /\ UNCHANGED not_overlay_vars

add_line(name, x1, y1, x2, y2, color, thickness) ==
    /\ update_count < MaxUpdates
    /\ IF ~CV2_AVAILABLE
       THEN LET width == IF Abs(x2 - x1) # 0 THEN Abs(x2 - x1) ELSE thickness
                height == IF Abs(y2 - y1) # 0 THEN Abs(y2 - y1) ELSE thickness
            IN  RectangleBody(name, Min(x1, x2), Min(y1, y2), width, height, color,
                              TRUE, DefaultThickness)
       ELSE /\ dirty_regions' = MarkOldDirty(name)
            /\ elements' = Store(name, OverlayElement(Min(x1, x2), Min(y1, y2),
                                                      Abs(x2 - x1) + thickness,
                                                      Abs(y2 - y1) + thickness))
            /\ heap' = [heap EXCEPT ![overlay] = CvLine(heap[overlay], x1, y1, x2, y2, color)]
            /\ update_count' = update_count + 1
    /\ last_call' = Called("add_line", name)
    /\ UNCHANGED <<CV2_AVAILABLE, overlay, array>>
    /\ UNCHANGED not_overlay_vars

add_circle(name, center_x, center_y, radius, color, filled, thickness) ==
    /\ update_count < MaxUpdates
    /\ IF ~CV2_AVAILABLE
       THEN RectangleBody(name, center_x - radius, center_y - radius,
                          radius * 2, radius * 2, color, filled, DefaultThickness)
       ELSE LET bbox_size == radius * 2 + (IF ~filled THEN thickness ELSE 0)
            IN  /\ dirty_regions' = MarkOldDirty(name)
                /\ elements' = Store(name, OverlayElement(center_x - radius, center_y - radius,
                                                          bbox_size, bbox_size))
                /\ heap' = [heap EXCEPT ![overlay] =
                                CvCircle(heap[overlay], center_x, center_y, radius, color, filled)]
                /\ update_count' = update_count + 1
    /\ last_call' = Called("add_circle", name)
    /\ UNCHANGED <<CV2_AVAILABLE, overlay, array>>
    /\ UNCHANGED not_overlay_vars

\* add_text drawing the text although cv2 is missing
TextBody_ignores_cv2(name, x, y, text, color) ==
    LET sz == CvGetTextSize(text)
    IN  /\ update_count < MaxUpdates \/ ~CV2_AVAILABLE
        /\ dirty_regions' = MarkOldDirty(name)
        /\ elements' = Store(name, OverlayElement(x, y - sz[2], sz[1], sz[2] + sz[3]))
        /\ heap' = [heap EXCEPT ![overlay] = CvPutText(heap[overlay], x, y, text, color)]
        /\ update_count' = update_count + 1

\* the body of add_text, which update_text forwards to
TextBody(name, x, y, text, color) ==
    IF ~CV2_AVAILABLE
    THEN UNCHANGED <<dirty_regions, elements, heap, update_count>>
    ELSE LET sz == CvGetTextSize(text)
         IN  /\ update_count < MaxUpdates
             /\ dirty_regions' = MarkOldDirty(name)
             /\ elements' = Store(name, OverlayElement(x, y - sz[2], sz[1], sz[2] + sz[3]))
             /\ heap' = [heap EXCEPT ![overlay] = CvPutText(heap[overlay], x, y, text, color)]
             /\ update_count' = update_count + 1

add_text(name, x, y, text, color) ==
    /\ TextBody(name, x, y, text, color)
    /\ last_call' = Called("add_text", name)
    /\ UNCHANGED <<CV2_AVAILABLE, overlay, array>>
    /\ UNCHANGED not_overlay_vars

update_text(name, x, y, text, color) ==
    /\ TextBody(name, x, y, text, color)
    /\ last_call' = Called("update_text", name)
    /\ UNCHANGED <<CV2_AVAILABLE, overlay, array>>
    /\ UNCHANGED not_overlay_vars

remove_element(name) ==
    /\ IF name \in DOMAIN elements
       THEN LET elem == elements[name]
            IN  /\ heap' = [heap EXCEPT ![overlay] =
                                _clear_region(heap[overlay], elem.x, elem.y, elem.width, elem.height)]
                /\ elements' = [n \in (DOMAIN elements) \ {name} |-> elements[n]]
       ELSE UNCHANGED <<heap, elements>>
    /\ last_call' = Called("remove_element", name)
    /\ UNCHANGED <<CV2_AVAILABLE, overlay, dirty_regions, update_count, array>>
    /\ UNCHANGED not_overlay_vars

\* hide_element implemented as a removal
hide_element_deletes(name) ==
    /\ IF name \in DOMAIN elements
       THEN LET elem == elements[name]
            IN  /\ elements' = [n \in (DOMAIN elements) \ {name} |-> elements[n]]
                /\ heap' = [heap EXCEPT ![overlay] =
                                _clear_region(heap[overlay], elem.x, elem.y, elem.width, elem.height)]
       ELSE UNCHANGED <<heap, elements>>
    /\ last_call' = Called("hide_element", name)
    /\ UNCHANGED <<CV2_AVAILABLE, overlay, dirty_regions, update_count, array>>
    /\ UNCHANGED not_overlay_vars

hide_element(name) ==
    /\ IF name \in DOMAIN elements
       THEN LET elem == elements[name]
            IN  /\ elements' = [elements EXCEPT ![name].visible = FALSE]
                /\ heap' = [heap EXCEPT ![overlay] =
                                _clear_region(heap[overlay], elem.x, elem.y, elem.width, elem.height)]
       ELSE UNCHANGED <<heap, elements>>
    /\ last_call' = Called("hide_element", name)
    /\ UNCHANGED <<CV2_AVAILABLE, overlay, dirty_regions, update_count, array>>
    /\ UNCHANGED not_overlay_vars

show_element(name) ==
    /\ IF name \in DOMAIN elements
       THEN elements' = [elements EXCEPT ![name].visible = TRUE]
       ELSE UNCHANGED elements
    /\ last_call' = Called("show_element", name)
    /\ UNCHANGED <<CV2_AVAILABLE, heap, overlay, dirty_regions, update_count, array>>
    /\ UNCHANGED not_overlay_vars

RECURSIVE ClearRegions(_, _)
\* "for x, y, width, height in self.dirty_regions: self._clear_region(...)"
ClearRegions(canvas, regions) ==
    IF regions = <<>> THEN canvas
    ELSE LET r == Head(regions)
         IN  ClearRegions(_clear_region(canvas, r[1], r[2], r[3], r[4]), Tail(regions))

clear_dirty_regions ==
    /\ heap' = [heap EXCEPT ![overlay] = ClearRegions(heap[overlay], dirty_regions)]
    /\ dirty_regions' = <<>>
    /\ last_call' = Called("clear_dirty_regions", "")
    /\ UNCHANGED <<CV2_AVAILABLE, overlay, elements, update_count, array>>
    /\ UNCHANGED not_overlay_vars

clear_all ==
    /\ update_count < MaxUpdates
    /\ heap' = [heap EXCEPT ![overlay] =
                    Paint(heap[overlay], LAMBDA x, y : TRUE, background_color)]
    /\ dirty_regions' = <<>>
    /\ update_count' = update_count + 1
    /\ last_call' = Called("clear_all", "")
    /\ UNCHANGED <<CV2_AVAILABLE, overlay, elements, array>>
    /\ UNCHANGED not_overlay_vars

\* get_array returning self.overlay.copy(): a fresh buffer each call
get_array_copy ==
    /\ heap' = Append(heap, heap[overlay])
    /\ array' = Len(heap) + 1
    /\ last_call' = Called("get_array", "")
    /\ UNCHANGED <<CV2_AVAILABLE, overlay, elements, dirty_regions, update_count>>
    /\ UNCHANGED not_overlay_vars

\* "return self.overlay": the caller now holds the helper's own buffer
\* get_stats(): 'memory_mb' is overlay.nbytes (4 bytes a pixel) left in bytes
get_stats ==
    [elements |-> Cardinality(DOMAIN elements),
     updates |-> update_count,
     size |-> <<CanvasWidth, CanvasHeight>>,
     nbytes |-> CanvasWidth * CanvasHeight * 4]

get_array ==
    /\ array' = overlay
    /\ last_call' = Called("get_array", "")
    /\ UNCHANGED <<CV2_AVAILABLE, heap, overlay, elements, dirty_regions, update_count>>
    /\ UNCHANGED not_overlay_vars

(***************************************************************************)
(* Specifications                                                          *)
(***************************************************************************)
(***************************************************************************)
(* FPVOverlay(OverlayHelper): the text read-outs of the HUD.  Voltages are *)
(* given in tenths of a volt; RGBA colours are numbered: 3 green,         *)
(* 4 yellow, 5 red, 6 white.                                               *)
(***************************************************************************)
Voltages == {126, 99}
CellCounts == {0, 3}
Rssis == {80, 30}
Modes == {"ACRO"}

\* f"BAT: {voltage:.1f}V"
BatteryText(voltage) ==
    "BAT: " \o ToString(voltage \div 10) \o "." \o ToString(voltage % 10) \o "V"

\* f"SIG: {rssi}%"
SignalText(rssi) == "SIG: " \o ToString(rssi) \o "%"

update_battery(voltage, cell_count, x, y) ==
    /\ IF cell_count = 0
       THEN \* voltage / cell_count raises ZeroDivisionError
            /\ last_call' = Raised("update_battery", "battery")
            /\ UNCHANGED <<dirty_regions, elements, heap, update_count>>
       ELSE LET color == IF voltage > 37 * cell_count THEN 3
                         ELSE IF voltage > 35 * cell_count THEN 4
                         ELSE 5
            IN  /\ TextBody("battery", x, y, BatteryText(voltage), color)
                /\ last_call' = Called("update_battery", "battery")
    /\ UNCHANGED <<CV2_AVAILABLE, overlay, array>>
    /\ UNCHANGED not_overlay_vars

update_signal(rssi, x, y) ==
    /\ LET color == IF rssi > 70 THEN 3
                    ELSE IF rssi > 40 THEN 4
                    ELSE 5
       IN  TextBody("signal", x, y, SignalText(rssi), color)
    /\ last_call' = Called("update_signal", "signal")
    /\ UNCHANGED <<CV2_AVAILABLE, overlay, array>>
    /\ UNCHANGED not_overlay_vars

\* x is <<>> for the default argument x=None and <<v>> for x=v
update_flight_mode(mode, x, y) ==
    /\ LET x0 == IF x = <<>> THEN CanvasWidth - 120 ELSE x[1]
       IN  TextBody("flight_mode", x0, y, mode, 6)
    /\ last_call' = Called("update_flight_mode", "flight_mode")
    /\ UNCHANGED <<CV2_AVAILABLE, overlay, array>>
    /\ UNCHANGED not_overlay_vars

(***************************************************************************)
(* ePTZController (examples/eptz_demo.py): the controller state and the    *)
(* methods that change it.  Its floats are rationals rounded to Precision  *)
(* significant bits after every arithmetic operation.                      *)
(***************************************************************************)
Precision == 6
MaxSteps == 2
\* calls made to one controller
MaxCalls == 4

RECURSIVE GCD(_, _)
GCD(a, b) == IF b = 0 THEN a ELSE GCD(b, a % b)

\* the rational n/d in lowest terms
Norm(n, d) == LET g == GCD(Abs(n), d) IN <<n \div g, d \div g>>

RAdd(a, b) == Norm(a[1] * b[2] + b[1] * a[2], a[2] * b[2])
RSub(a, b) == Norm(a[1] * b[2] - b[1] * a[2], a[2] * b[2])
RMul(a, b) == Norm(a[1] * b[1], a[2] * b[2])
RLe(a, b) == a[1] * b[2] <= b[1] * a[2]
RMin(a, b) == IF RLe(b, a) THEN b ELSE a
RMax(a, b) == IF RLe(a, b) THEN b ELSE a

\* n/d rounded to the nearest integer, ties to the even one
RoundHalfEven(n, d) ==
    LET k == n \div d
        r == n - k * d
    IN  IF 2 * r > d \/ (2 * r = d /\ k % 2 = 1) THEN k + 1 ELSE k

\* the float nearest to n/d > 0: scale into [2^(Precision-1), 2^Precision),
\* round to an integer, scale back
RECURSIVE FlPos(_, _)
FlPos(n, d) ==
    IF n < d * 2^(Precision - 1)
    THEN LET h == FlPos(2 * n, d) IN Norm(h[1], 2 * h[2])
    ELSE IF n >= d * 2^Precision
         THEN LET h == FlPos(n, 2 * d) IN Norm(2 * h[1], h[2])
         ELSE <<RoundHalfEven(n, d), 1>>

\* the gap between neighbouring floats around n/d > 0
RECURSIVE UlpPos(_, _)
UlpPos(n, d) ==
    IF n < d * 2^(Precision - 1)
    THEN LET h == UlpPos(2 * n, d) IN Norm(h[1], 2 * h[2])
    ELSE IF n >= d * 2^Precision
         THEN LET h == UlpPos(n, 2 * d) IN Norm(2 * h[1], h[2])
         ELSE <<1, 1>>

Ulp(q) == IF q[1] = 0 THEN <<0, 1>> ELSE UlpPos(Abs(q[1]), q[2])

\* the float that a computation with exact result q produces
Fl(q) ==
    IF q[1] = 0 THEN <<0, 1>>
    ELSE IF q[1] > 0 THEN FlPos(q[1], q[2])
    ELSE LET m == FlPos(-q[1], q[2]) IN <<-m[1], m[2]>>

\* ePTZController.__init__: limits and step sizes
min_zoom == <<1, 1>>
max_zoom == <<8, 1>>
zoom_step == Fl(<<1, 5>>)
pan_step == Fl(<<1, 20>>)
Zero == <<0, 1>>
One == <<1, 1>>
Half == <<1, 2>>

\* arguments of the smooth operations: any float, in range or not
ZoomTargets == {Fl(<<1, 2>>), Fl(<<6, 5>>), Fl(<<10, 1>>)}
PanTargets == {<<Fl(<<-1, 1>>), Fl(<<2, 1>>)>>, <<Fl(<<1, 10>>), Fl(<<-1, 1>>)>>,
               <<Fl(<<2, 1>>), Fl(<<3, 10>>)>>}
StepCounts == 1..MaxSteps

\* camera and stream the controller is built on: <<PixelArraySize, output_size>>
Cameras == {<< <<MaxSensorW, MaxSensorH>>, <<4, 3>> >>, << <<4608, 2592>>, <<640, 480>> >>}

NoLoop == [op |-> "none", i |-> 0, steps |-> 0, start |-> <<>>, target |-> <<>>,
           active |-> FALSE]

\* the state right after ePTZController.__init__
ControllerConstructed ==
    /\ zoom = One
    /\ pan_x = Half
    /\ pan_y = Half
    /\ smooth = NoLoop
    /\ ptz_call = [op |-> "__init__", applied |-> 0, calls |-> 0]

\* apply_crop without the set_controls call
apply_crop_not_sent == UNCHANGED scaler_crop

\* apply_crop: calculate_crop() of the state just assigned, sent as ScalerCrop
apply_crop ==
    scaler_crop' = ePTZController_calculate_crop(sensor_size, output_size, zoom', pan_x', pan_y')

\* a method that runs to its return in one step and applies one crop
Simple(op) ==
    /\ ~smooth.active
    /\ ptz_call.calls < MaxCalls
    /\ apply_crop
    /\ smooth' = NoLoop
    /\ ptz_call' = [op |-> op, applied |-> 1, calls |-> ptz_call.calls + 1]
    /\ UNCHANGED <<sensor_size, output_size, crops>>
    /\ UNCHANGED not_ptz_vars

\* zoom_in without the min() against max_zoom
zoom_in_unclamped ==
    /\ zoom' = Fl(RAdd(zoom, zoom_step))
    /\ UNCHANGED <<pan_x, pan_y>>
    /\ Simple("zoom_in")

zoom_in ==
    /\ zoom' = RMin(Fl(RAdd(zoom, zoom_step)), max_zoom)
    /\ UNCHANGED <<pan_x, pan_y>>
    /\ Simple("zoom_in")

zoom_out ==
    /\ zoom' = RMax(Fl(RSub(zoom, zoom_step)), min_zoom)
    /\ UNCHANGED <<pan_x, pan_y>>
    /\ Simple("zoom_out")

pan_left ==
    /\ pan_x' = RMax(Zero, Fl(RSub(pan_x, pan_step)))
    /\ UNCHANGED <<zoom, pan_y>>
    /\ Simple("pan_left")

pan_right ==
    /\ pan_x' = RMin(One, Fl(RAdd(pan_x, pan_step)))
    /\ UNCHANGED <<zoom, pan_y>>
    /\ Simple("pan_right")

tilt_up ==
    /\ pan_y' = RMax(Zero, Fl(RSub(pan_y, pan_step)))
    /\ UNCHANGED <<zoom, pan_x>>
    /\ Simple("tilt_up")

tilt_down ==
    /\ pan_y' = RMin(One, Fl(RAdd(pan_y, pan_step)))
    /\ UNCHANGED <<zoom, pan_x>>
    /\ Simple("tilt_down")

reset ==
    /\ zoom' = One
    /\ pan_x' = Half
    /\ pan_y' = Half
    /\ Simple("reset")

\* calculate_crop() and get_status() only read the state
Query(op) ==
    /\ ~smooth.active
    /\ smooth' = NoLoop
    /\ ptz_call.calls < MaxCalls
    /\ ptz_call' = [op |-> op, applied |-> 0, calls |-> ptz_call.calls + 1]
    /\ UNCHANGED crop_vars
    /\ UNCHANGED not_ptz_vars

calculate_crop == Query("calculate_crop")

get_status == Query("get_status")

\* smooth_zoom_to up to the loop: the target is clamped, the start remembered
smooth_zoom_to(target_zoom, steps) ==
    /\ ~smooth.active
    /\ smooth' = [op |-> "zoom", i |-> 0, steps |-> steps, start |-> <<zoom>>,
                  target |-> <<RMax(min_zoom, RMin(target_zoom, max_zoom))>>,
                  active |-> TRUE]
    /\ ptz_call.calls < MaxCalls
    /\ ptz_call' = [op |-> "smooth_zoom_to", applied |-> 0, calls |-> ptz_call.calls + 1]
    /\ UNCHANGED crop_vars
    /\ UNCHANGED not_ptz_vars

\* smooth_pan_to up to the loop
smooth_pan_to(target_pan_x, target_pan_y, steps) ==
    /\ ~smooth.active
    /\ smooth' = [op |-> "pan", i |-> 0, steps |-> steps, start |-> <<pan_x, pan_y>>,
                  target |-> <<RMax(Zero, RMin(One, target_pan_x)),
                               RMax(Zero, RMin(One, target_pan_y))>>,
                  active |-> TRUE]
    /\ ptz_call.calls < MaxCalls
    /\ ptz_call' = [op |-> "smooth_pan_to", applied |-> 0, calls |-> ptz_call.calls + 1]
    /\ UNCHANGED crop_vars
    /\ UNCHANGED not_ptz_vars

\* the interpolation with the step count off by one: progress = i / (steps + 1)
Interpolate_short(start, target, i, steps) ==
    LET progress == Fl(<<i, steps + 1>>)
    IN  Fl(RAdd(start, Fl(RMul(Fl(RSub(target, start)), progress))))

\* start + (target - start) * progress, with progress = i / steps
Interpolate(start, target, i, steps) ==
    LET progress == Fl(<<i, steps>>)
    IN  Fl(RAdd(start, Fl(RMul(Fl(RSub(target, start)), progress))))

\* one pass of the for loop: assign, apply_crop(), sleep; after the pass with
\* i = steps the method returns
LoopPass ==
    /\ smooth.active
    /\ apply_crop
    /\ smooth' = [smooth EXCEPT !.i = smooth.i + 1, !.active = smooth.i < smooth.steps]
    /\ ptz_call' = [ptz_call EXCEPT !.applied = ptz_call.applied + 1]
    /\ UNCHANGED <<sensor_size, output_size, crops>>
    /\ UNCHANGED not_ptz_vars

smooth_zoom_to_pass ==
    /\ smooth.active
    /\ smooth.op = "zoom"
    /\ zoom' = Interpolate(smooth.start[1], smooth.target[1], smooth.i, smooth.steps)
    /\ UNCHANGED <<pan_x, pan_y>>
    /\ LoopPass

smooth_pan_to_pass ==
    /\ smooth.active
    /\ smooth.op = "pan"
    /\ pan_x' = Interpolate(smooth.start[1], smooth.target[1], smooth.i, smooth.steps)
    /\ pan_y' = Interpolate(smooth.start[2], smooth.target[2], smooth.i, smooth.steps)
    /\ UNCHANGED zoom
    /\ LoopPass

(***************************************************************************)
(* picamera2_contrib/platform.py: the probe that runs when the module is   *)
(* imported, and get_platform().                                           *)
(***************************************************************************)
\* range(64), cut down
NumDevices == 3

Cards == {"pispbe", "bcm2835-isp", "other"}

\* a device node: absent, or present with the card name its driver reports
\* and whether open() or the VIDIOC_QUERYCAP ioctl on it raises
Absent == [exists |-> FALSE, card |-> "other", raises |-> FALSE]
DeviceKinds == {Absent} \cup [exists : {TRUE}, card : Cards, raises : BOOLEAN]

\* before "import picamera2_contrib.platform"
PlatformNotImported ==
    /\ platform_pc = "import"
    /\ num = 0
    /\ _platform = "unset"
    /\ probe_raised = FALSE
    /\ got_platform = "none"

\* lines 5-15: the import guard for videodev2, then _platform = Platform.VC4
import_videodev2 ==
    /\ platform_pc = "import"
    /\ _platform' = "VC4"
    /\ platform_pc' = IF videodev2 THEN "scan" ELSE "imported"
    /\ UNCHANGED <<videodev2, devices, num, probe_raised, got_platform>>
    /\ UNCHANGED not_platform_vars

\* the scan without the break at a "bcm2835-isp" device
scan_device_no_bcm_break ==
    /\ platform_pc = "scan"
    /\ LET device == devices[num + 1]
           last == num + 1 = NumDevices
       IN  IF ~device.exists
           THEN /\ platform_pc' = IF last THEN "imported" ELSE "scan"
                /\ num' = IF last THEN num ELSE num + 1
                /\ UNCHANGED <<_platform, probe_raised>>
           ELSE IF device.raises
           THEN /\ platform_pc' = "except"
                /\ probe_raised' = TRUE
                /\ UNCHANGED <<_platform, num>>
           ELSE IF device.card = "pispbe"
           THEN /\ _platform' = "PISP"
                /\ platform_pc' = "imported"
                /\ UNCHANGED <<num, probe_raised>>
           ELSE /\ platform_pc' = IF last THEN "imported" ELSE "scan"
                /\ num' = IF last THEN num ELSE num + 1
                /\ UNCHANGED <<_platform, probe_raised>>
    /\ UNCHANGED <<videodev2, devices, got_platform>>
    /\ UNCHANGED not_platform_vars

\* one pass of "for num in range(64)"; the loop ends by break, by running
\* out of numbers, or by an exception that leaves the try block
scan_device ==
    /\ platform_pc = "scan"
    /\ LET device == devices[num + 1]
           last == num + 1 = NumDevices
       IN  IF ~device.exists
           THEN /\ platform_pc' = IF last THEN "imported" ELSE "scan"
                /\ num' = IF last THEN num ELSE num + 1
                /\ UNCHANGED <<_platform, probe_raised>>
           ELSE IF device.raises
           THEN /\ platform_pc' = "except"
                /\ probe_raised' = TRUE
                /\ UNCHANGED <<_platform, num>>
           ELSE IF device.card = "pispbe"
           THEN /\ _platform' = "PISP"
                /\ platform_pc' = "imported"
                /\ UNCHANGED <<num, probe_raised>>
           ELSE IF device.card = "bcm2835-isp"
           THEN /\ platform_pc' = "imported"
                /\ UNCHANGED <<_platform, num, probe_raised>>
           ELSE /\ platform_pc' = IF last THEN "imported" ELSE "scan"
                /\ num' = IF last THEN num ELSE num + 1
                /\ UNCHANGED <<_platform, probe_raised>>
    /\ UNCHANGED <<videodev2, devices, got_platform>>
    /\ UNCHANGED not_platform_vars

\* a handler that lets the exception out of the module
except_Exception_reraised ==
    /\ platform_pc = "except"
    /\ platform_pc' = "import failed"
    /\ UNCHANGED <<videodev2, devices, num, _platform, probe_raised, got_platform>>
    /\ UNCHANGED not_platform_vars

\* "except Exception: pass"
except_Exception ==
    /\ platform_pc = "except"
    /\ platform_pc' = "imported"
    /\ UNCHANGED <<videodev2, devices, num, _platform, probe_raised, got_platform>>
    /\ UNCHANGED not_platform_vars

get_platform ==
    /\ platform_pc = "imported"
    /\ got_platform' = _platform
    /\ UNCHANGED <<videodev2, devices, platform_pc, num, _platform, probe_raised>>
    /\ UNCHANGED not_platform_vars

(***************************************************************************)
(* examples/remote_processing_pool.py and                                  *)
(* examples/remote_processing_example.py.                                  *)
(*                                                                         *)
(* Pool is not part of these sources.  It is modelled as plain fan-out:    *)
(* send() hands the request to one of the worker processes and returns a   *)
(* future; a worker calls init once, then run on its requests one at a     *)
(* time in the order it was handed them, and resolves the future with what *)
(* run returned; leaving the "with" block waits for the workers to finish. *)
(* A worker's pid is its index.                                            *)
(***************************************************************************)
IMAGE_COUNT == 4
Processes == 3

Workers == 1..Processes
Requests == 1..IMAGE_COUNT

\* a future without a result yet; a resolved one holds <<result>>
Pending == <<>>
Resolved(f) == Len(results[f]) = 1

NoPool ==
    /\ main_pc = "none"
    /\ main_sent = 0
    /\ futures = <<>>
    /\ worker_pc = [w \in Workers |-> "none"]
    /\ inbox = [w \in Workers |-> <<>>]
    /\ counter = [w \in Workers |-> 0]
    /\ results = [r \in Requests |-> Pending]
    /\ handled = [w \in Workers |-> {}]
    /\ counts = <<>>
    /\ gather_pc = "none"
    /\ gather_i = 0
    /\ future = 0
    /\ received = <<>>

\* Pool(run, 16, picam2, init) / Pool(run, 16, picam2): the processes start
PoolCreated ==
    /\ main_sent = 0
    /\ futures = <<>>
    /\ worker_pc = [w \in Workers |-> "start"]
    /\ inbox = [w \in Workers |-> <<>>]
    /\ counter = [w \in Workers |-> 0]
    /\ results = [r \in Requests |-> Pending]
    /\ handled = [w \in Workers |-> {}]
    /\ counts = <<>>
    /\ received = <<>>

\* pool.send(request): the request goes to worker w, the future is returned
Pool_send(w, f) == [inbox EXCEPT ![w] = Append(@, f)]

\* Pool.__exit__: every request handed out has been run
Pool_exit == \A w \in Workers : inbox[w] = <<>>

\* the worker's process has started: init() of remote_processing_pool.py
init(w) ==
    /\ main_pc \in {"send", "exit"}
    /\ worker_pc[w] = "start"
    /\ worker_pc' = [worker_pc EXCEPT ![w] = "ready"]
    /\ counter' = [counter EXCEPT ![w] = 0]
    /\ UNCHANGED <<main_pc, main_sent, futures, inbox, results, handled, counts,
                   gather_pc, gather_i, future, received>>
    /\ UNCHANGED not_pool_vars

\* run returning the counter it found
run_stale_counter(w) ==
    /\ worker_pc[w] = "ready"
    /\ inbox[w] # <<>>
    /\ counter' = [counter EXCEPT ![w] = @ + 1]
    /\ results' = [results EXCEPT ![Head(inbox[w])] = << <<w, counter[w]>> >>]
    /\ inbox' = [inbox EXCEPT ![w] = Tail(@)]
    /\ handled' = [handled EXCEPT ![w] = @ \cup {Head(inbox[w])}]
    /\ UNCHANGED <<main_pc, main_sent, futures, worker_pc, counts, gather_pc, gather_i, future, received>>
    /\ UNCHANGED not_pool_vars

\* run(request) of remote_processing_pool.py in worker w, and its future resolved
run(w) ==
    /\ worker_pc[w] = "ready"
    /\ inbox[w] # <<>>
    /\ counter' = [counter EXCEPT ![w] = @ + 1]
    /\ results' = [results EXCEPT ![Head(inbox[w])] = << <<w, counter[w] + 1>> >>]
    /\ inbox' = [inbox EXCEPT ![w] = Tail(@)]
    /\ handled' = [handled EXCEPT ![w] = @ \cup {Head(inbox[w])}]
    /\ UNCHANGED <<main_pc, main_sent, futures, worker_pc, counts, gather_pc, gather_i, future, received>>
    /\ UNCHANGED not_pool_vars

\* one pass of "for _ in range(100)": future = pool.send(request); futures.append(future)
pool_send ==
    /\ main_pc = "send"
    /\ \E w \in Workers : inbox' = Pool_send(w, main_sent + 1)
    /\ futures' = Append(futures, main_sent + 1)
    /\ main_sent' = main_sent + 1
    /\ main_pc' = IF main_sent + 1 = IMAGE_COUNT THEN "exit" ELSE "send"
    /\ UNCHANGED <<worker_pc, counter, results, handled, counts,
                   gather_pc, gather_i, future, received>>
    /\ UNCHANGED not_pool_vars

\* the end of the "with Pool(...)" block; print("Pool Closed")
pool_closed ==
    /\ main_pc = "exit"
    /\ Pool_exit
    /\ main_pc' = "closed"
    /\ UNCHANGED <<main_sent, futures, worker_pc, inbox, counter, results, handled, counts,
                   gather_pc, gather_i, future, received>>
    /\ UNCHANGED not_pool_vars

\* dict.update with an iterable of (key, value) pairs: later pairs win
RECURSIVE dict_update(_, _)
dict_update(dict, pairs) ==
    IF pairs = <<>> THEN dict
    ELSE LET key == Head(pairs)[1]
             value == Head(pairs)[2]
         IN dict_update([k \in DOMAIN dict \cup {key} |->
                             IF k = key THEN value ELSE dict[k]],
                        Tail(pairs))

\* counts = {}; counts.update(future.result() for future in futures)
counts_update ==
    /\ main_pc = "closed"
    /\ \A i \in 1..Len(futures) : Resolved(futures[i])
    /\ counts' = dict_update(<<>>, [i \in 1..Len(futures) |-> results[futures[i]][1]])
    /\ main_pc' = "done"
    /\ UNCHANGED <<main_sent, futures, worker_pc, inbox, counter, results, handled,
                   gather_pc, gather_i, future, received>>
    /\ UNCHANGED not_pool_vars

\* run(request) of remote_processing_example.py in worker w: the sum of the
\* request's image, which is the request's number here
example_run(w) ==
    /\ worker_pc[w] = "ready"
    /\ inbox[w] # <<>>
    /\ results' = [results EXCEPT ![Head(inbox[w])] = <<Head(inbox[w])>>]
    /\ inbox' = [inbox EXCEPT ![w] = Tail(@)]
    /\ handled' = [handled EXCEPT ![w] = @ \cup {Head(inbox[w])}]
    /\ UNCHANGED <<main_pc, main_sent, futures, worker_pc, counter, counts, gather_pc, gather_i,
                   future, received>>
    /\ UNCHANGED not_pool_vars

\* one pass of "for _ in range(IMAGE_COUNT)": future = pool.send(request);
\* futures.put(future); after the last one the main thread is at join()
example_send ==
    /\ main_pc = "send"
    /\ \E w \in Workers : inbox' = Pool_send(w, main_sent + 1)
    /\ futures' = Append(futures, main_sent + 1)
    /\ main_sent' = main_sent + 1
    /\ main_pc' = IF main_sent + 1 = IMAGE_COUNT THEN "join" ELSE "send"
    /\ UNCHANGED <<worker_pc, counter, results, handled, counts,
                   gather_pc, gather_i, future, received>>
    /\ UNCHANGED not_pool_vars

\* gather_results: future = futures.get(), which blocks on an empty queue
gather_get ==
    /\ gather_pc = "get"
    /\ futures # <<>>
    /\ future' = Head(futures)
    /\ futures' = Tail(futures)
    /\ gather_pc' = "result"
    /\ UNCHANGED <<main_pc, main_sent, worker_pc, inbox, counter, results, handled, counts,
                   gather_i, received>>
    /\ UNCHANGED not_pool_vars

\* the loop running one pass too many
gather_result_extra_pass ==
    /\ gather_pc = "result"
    /\ Resolved(future)
    /\ received' = Append(received, results[future][1])
    /\ gather_i' = gather_i + 1
    /\ gather_pc' = IF gather_i + 1 = IMAGE_COUNT + 1 THEN "done" ELSE "get"
    /\ UNCHANGED <<main_pc, main_sent, futures, worker_pc, inbox, counter, results, handled,
                   counts, future>>
    /\ UNCHANGED not_pool_vars

\* gather_results: future.result(), which blocks until the worker is done, the
\* print, and the end of the pass
gather_result ==
    /\ gather_pc = "result"
    /\ Resolved(future)
    /\ received' = Append(received, results[future][1])
    /\ gather_i' = gather_i + 1
    /\ gather_pc' = IF gather_i + 1 = IMAGE_COUNT THEN "done" ELSE "get"
    /\ UNCHANGED <<main_pc, main_sent, futures, worker_pc, inbox, counter, results, handled,
                   counts, future>>
    /\ UNCHANGED not_pool_vars

\* results_thread.join() returns once gather_results has returned
results_thread_join ==
    /\ main_pc = "join"
    /\ gather_pc = "done"
    /\ main_pc' = "exit"
    /\ UNCHANGED <<main_sent, futures, worker_pc, inbox, counter, results, handled, counts,
                   gather_pc, gather_i, future, received>>
    /\ UNCHANGED not_pool_vars

\* the end of the "with Pool(...)" block, and of the program
example_closed ==
    /\ main_pc = "exit"
    /\ Pool_exit
    /\ main_pc' = "done"
    /\ UNCHANGED <<main_sent, futures, worker_pc, inbox, counter, results, handled, counts,
                   gather_pc, gather_i, future, received>>
    /\ UNCHANGED not_pool_vars

(***************************************************************************)
(* examples/eptz_recording.py: smooth_transition and the two recorded      *)
(* sequences.  zoom, pan_x and pan_y are the locals of smooth_transition   *)
(* (the arguments of the first calculate_crop call of a sequence);         *)
(* progress = i / steps and the interpolation are evaluated exactly, which *)
(* is what the floats give at progress 0.0 and 1.0 for the values the      *)
(* sequences use.                                                          *)
(***************************************************************************)
TransitionSteps == 2

\* PixelArraySize of the cameras the sequences may run on
PixelArraySizes == {<<4608, 2592>>, <<3280, 2464>>, <<2592, 1944>>, <<4056, 3040>>,
                    <<1456, 1088>>, <<9152, 6944>>, <<1920, 1080>>, <<640, 480>>}

NoRecording == [program |-> "none", segment |-> 0, i |-> 0, previous |-> NotCalled]

Transition(sz, ez, spx, epx, spy, epy) ==
    [start_zoom |-> sz, end_zoom |-> ez, start_pan_x |-> spx, end_pan_x |-> epx,
     start_pan_y |-> spy, end_pan_y |-> epy]

\* record_with_eptz_effects: segment 1 is the crop at zoom 1.0 in the centre,
\* segments 2 to 4 are these smooth_transition calls
EffectsStart == [zoom |-> <<1, 1>>, pan_x |-> <<1, 2>>, pan_y |-> <<1, 2>>]
EffectsTransitions ==
    << Transition(<<1, 1>>, <<3, 1>>, <<1, 2>>, <<1, 2>>, <<1, 2>>, <<1, 2>>),
       Transition(<<3, 1>>, <<3, 1>>, <<3, 10>>, <<7, 10>>, <<1, 2>>, <<1, 2>>),
       Transition(<<3, 1>>, <<1, 1>>, <<7, 10>>, <<1, 2>>, <<1, 2>>, <<1, 2>>) >>

\* record_security_patrol: patrol_points as (pan_x, pan_y, zoom)
patrol_points ==
    << <<<<1, 4>>, <<1, 4>>, <<2, 1>>>>,
       <<<<3, 4>>, <<1, 4>>, <<2, 1>>>>,
       <<<<3, 4>>, <<3, 4>>, <<2, 1>>>>,
       <<<<1, 4>>, <<3, 4>>, <<2, 1>>>>,
       <<<<1, 2>>, <<1, 2>>, <<3, 2>>>> >>

\* the smooth_transition call of patrol point i + 1: from patrol_points[i-1]
\* to patrol_points[i] in the code's numbering
PatrolTransitions ==
    [k \in 1..(Len(patrol_points) - 1) |->
        Transition(patrol_points[k][3], patrol_points[k + 1][3],
                   patrol_points[k][1], patrol_points[k + 1][1],
                   patrol_points[k][2], patrol_points[k + 1][2])]

Transitions(program) ==
    IF program = "record_with_eptz_effects" THEN EffectsTransitions ELSE PatrolTransitions

\* crop = calculate_crop(...); picam2.set_controls({"ScalerCrop": crop})
SetScalerCrop(z, px, py) ==
    LET crop == eptz_recording_calculate_crop(sensor_size, output_size, z, px, py)
    IN  /\ zoom' = z
        /\ pan_x' = px
        /\ pan_y' = py
        /\ scaler_crop' = IF crop.status = "ok" THEN crop ELSE scaler_crop

Raises(z, px, py) ==
    eptz_recording_calculate_crop(sensor_size, output_size, z, px, py).status # "ok"

\* record_with_eptz_effects up to the end of segment 1
record_with_eptz_effects ==
    /\ recording.program = "none"
    /\ SetScalerCrop(EffectsStart.zoom, EffectsStart.pan_x, EffectsStart.pan_y)
    /\ recording' = [program |-> "record_with_eptz_effects", segment |-> 1, i |-> 0,
                     previous |-> NotCalled]
    /\ UNCHANGED <<sensor_size, output_size, crops>>
    /\ UNCHANGED not_recording_vars

\* record_security_patrol up to the end of the first patrol point (i == 0)
record_security_patrol ==
    /\ recording.program = "none"
    /\ SetScalerCrop(patrol_points[1][3], patrol_points[1][1], patrol_points[1][2])
    /\ recording' = [program |-> "record_security_patrol", segment |-> 1, i |-> 0,
                     previous |-> NotCalled]
    /\ UNCHANGED <<sensor_size, output_size, crops>>
    /\ UNCHANGED not_recording_vars

\* one pass of the loop of smooth_transition; the pass with i = 0 is the first of
\* the next smooth_transition call of the sequence
smooth_transition ==
    /\ recording.program \in {"record_with_eptz_effects", "record_security_patrol"}
    /\ LET starting == recording.segment = 1 \/ recording.i > TransitionSteps
           segment == IF starting THEN recording.segment + 1 ELSE recording.segment
           i == IF starting THEN 0 ELSE recording.i
       IN  /\ segment - 1 <= Len(Transitions(recording.program))
           /\ LET t == Transitions(recording.program)[segment - 1]
                  progress == Norm(i, TransitionSteps)
                  z == RAdd(t.start_zoom, RMul(RSub(t.end_zoom, t.start_zoom), progress))
                  px == RAdd(t.start_pan_x,
                             RMul(RSub(t.end_pan_x, t.start_pan_x), progress))
                  py == RAdd(t.start_pan_y,
                             RMul(RSub(t.end_pan_y, t.start_pan_y), progress))
              IN  /\ SetScalerCrop(z, px, py)
                  /\ recording' =
                        [program |-> IF Raises(z, px, py) THEN "raised"
                                     ELSE recording.program,
                         segment |-> segment,
                         i |-> i + 1,
                         previous |-> IF starting THEN scaler_crop
                                      ELSE recording.previous]
    /\ UNCHANGED <<sensor_size, output_size, crops>>
    /\ UNCHANGED not_recording_vars

\* np.zeros((height, width, 4)) filled with the background colour
NewCanvas == [r \in 1..CanvasHeight |-> [c \in 1..CanvasWidth |-> background_color]]

\* OverlayHelper.__init__
OverlayConstructed ==
    /\ heap = <<NewCanvas>>
    /\ overlay = 1
    /\ elements = [n \in {} |-> OverlayElement(0, 0, 0, 0)]
    /\ dirty_regions = <<>>
    /\ update_count = 0
    /\ array = 0
    /\ last_call = [op |-> "__init__", name |-> "", known |-> FALSE, raised |-> FALSE]

NothingCalled == [i \in Impls |-> NotCalled]

\* platform.py not imported, on a machine without video devices
NoPlatform ==
    /\ videodev2 = FALSE
    /\ devices = [n \in 1..NumDevices |-> Absent]
    /\ PlatformNotImported

\* the components a specification does not exercise
OthersIdle == NoPlatform /\ NoPool /\ recording = NoRecording

InitCrop ==
    /\ sensor_size \in SensorSizes
    /\ output_size \in OutputSizes
    /\ zoom \in Zooms
    /\ pan_x \in Pans
    /\ pan_y \in Pans
    /\ crops = NothingCalled
    /\ scaler_crop = NotCalled
    /\ CV2_AVAILABLE = TRUE
    /\ OverlayConstructed
    /\ smooth = NoLoop
    /\ ptz_call = [op |-> "__init__", applied |-> 0, calls |-> 0]
    /\ OthersIdle

SpecCrop == InitCrop /\ [][NextCrop]_vars

InitOverlay ==
    /\ CV2_AVAILABLE \in BOOLEAN
    /\ OverlayConstructed
    /\ sensor_size = <<MaxSensorW, MaxSensorH>>
    /\ output_size = <<4, 3>>
    /\ zoom = <<ZoomDen, ZoomDen>>
    /\ pan_x = <<0, PanDen>>
    /\ pan_y = <<0, PanDen>>
    /\ crops = NothingCalled
    /\ scaler_crop = NotCalled
    /\ smooth = NoLoop
    /\ ptz_call = [op |-> "__init__", applied |-> 0, calls |-> 0]
    /\ OthersIdle

NextOverlay ==
    \/ \E name \in Names, b \in Boxes :
            add_rectangle(name, b[1], b[2], b[3], b[4], ColourOf(name), TRUE, DefaultThickness)
    \/ \E name \in Names, s \in Segments :
            add_line(name, s[1], s[2], s[3], s[4], ColourOf(name), DefaultThickness)
    \/ \E name \in Names, c \in Centres, filled \in BOOLEAN :
            add_circle(name, c[1], c[2], 1, ColourOf(name), filled, DefaultThickness)
    \/ \E name \in Names, c \in Corners, text \in Texts :
            add_text(name, c[1], c[2], text, ColourOf(name))
    \/ \E name \in Names, c \in Corners, text \in Texts :
            update_text(name, c[1], c[2], text, ColourOf(name))
    \/ \E name \in Names : remove_element(name)
    \/ \E name \in Names : hide_element(name)
    \/ \E name \in Names : show_element(name)
    \/ clear_dirty_regions
    \/ clear_all
    \/ get_array
    \/ \E voltage \in Voltages, cell_count \in CellCounts, c \in Corners :
            update_battery(voltage, cell_count, c[1], c[2])
    \/ \E rssi \in Rssis, c \in Corners : update_signal(rssi, c[1], c[2])
    \/ \E mode \in Modes, c \in Corners :
            \E x \in {<<>>, <<c[1]>>} : update_flight_mode(mode, x, c[2])

SpecOverlay == InitOverlay /\ [][NextOverlay]_vars

InitPTZ ==
    /\ \E cam \in Cameras : sensor_size = cam[1] /\ output_size = cam[2]
    /\ ControllerConstructed
    /\ crops = NothingCalled
    /\ scaler_crop = NotCalled
    /\ CV2_AVAILABLE = TRUE
    /\ OverlayConstructed
    /\ OthersIdle

NextPTZ ==
    \/ zoom_in
    \/ zoom_out
    \/ pan_left
    \/ pan_right
    \/ tilt_up
    \/ tilt_down
    \/ reset
    \/ calculate_crop
    \/ get_status
    \/ \E target_zoom \in ZoomTargets, steps \in StepCounts : smooth_zoom_to(target_zoom, steps)
    \/ \E target_pan \in PanTargets, steps \in StepCounts :
            smooth_pan_to(target_pan[1], target_pan[2], steps)
    \/ smooth_zoom_to_pass
    \/ smooth_pan_to_pass

SpecPTZ == InitPTZ /\ [][NextPTZ]_vars

InitPlatform ==
    /\ videodev2 \in BOOLEAN
    /\ devices \in [1..NumDevices -> DeviceKinds]
    /\ PlatformNotImported
    /\ sensor_size = <<MaxSensorW, MaxSensorH>>
    /\ output_size = <<4, 3>>
    /\ ControllerConstructed
    /\ crops = NothingCalled
    /\ scaler_crop = NotCalled
    /\ CV2_AVAILABLE = TRUE
    /\ OverlayConstructed
    /\ NoPool
    /\ recording = NoRecording

NextPlatform ==
    \/ import_videodev2
    \/ scan_device
    \/ except_Exception
    \/ get_platform

SpecPlatform == InitPlatform /\ [][NextPlatform]_vars

\* every component but the pool examples, constructed and left alone
NoCamera ==
    /\ sensor_size = <<MaxSensorW, MaxSensorH>>
    /\ output_size = <<4, 3>>
    /\ ControllerConstructed
    /\ crops = NothingCalled
    /\ scaler_crop = NotCalled
    /\ CV2_AVAILABLE = TRUE
    /\ OverlayConstructed
    /\ NoPlatform
    /\ recording = NoRecording

\* an OverlayHelper used only through filled add_rectangle and clear_dirty_regions
RectangleBoxes == Boxes \cup {<<1, 0, 1, 1>>, <<0, 1, 2, 1>>}

NextRectangles ==
    \/ \E name \in Names, b \in RectangleBoxes :
            add_rectangle(name, b[1], b[2], b[3], b[4], ColourOf(name), TRUE, DefaultThickness)
    \/ clear_dirty_regions

SpecRectangles == InitOverlay /\ [][NextRectangles]_vars

\* eptz_recording.py with the camera configured for 640x480 and recording started
InitRecording ==
    /\ sensor_size \in PixelArraySizes
    /\ output_size = <<640, 480>>
    /\ ControllerConstructed
    /\ crops = NothingCalled
    /\ scaler_crop = NotCalled
    /\ CV2_AVAILABLE = TRUE
    /\ OverlayConstructed
    /\ NoPlatform
    /\ NoPool
    /\ recording = NoRecording

NextRecording ==
    \/ record_with_eptz_effects
    \/ record_security_patrol
    \/ smooth_transition

SpecRecording == InitRecording /\ [][NextRecording]_vars

\* remote_processing_pool.py once "with Pool(run, 16, picam2, init) as pool" is entered
InitPool ==
    /\ PoolCreated
    /\ main_pc = "send"
    /\ gather_pc = "none"
    /\ gather_i = 0
    /\ future = 0
    /\ NoCamera

NextPool ==
    \/ \E w \in Workers : init(w)
    \/ \E w \in Workers : run(w)
    \/ pool_send
    \/ pool_closed
    \/ counts_update

SpecPool == InitPool /\ [][NextPool]_vars

\* remote_processing_example.py once results_thread.start() has returned; Pool is
\* given no init, so its workers are ready at once
InitExample ==
    /\ main_pc = "send"
    /\ main_sent = 0
    /\ futures = <<>>
    /\ worker_pc = [w \in Workers |-> "ready"]
    /\ inbox = [w \in Workers |-> <<>>]
    /\ counter = [w \in Workers |-> 0]
    /\ results = [r \in Requests |-> Pending]
    /\ handled = [w \in Workers |-> {}]
    /\ counts = <<>>
    /\ gather_pc = "get"
    /\ gather_i = 0
    /\ future = 0
    /\ received = <<>>
    /\ NoCamera

NextExample ==
    \/ \E w \in Workers : example_run(w)
    \/ example_send
    \/ gather_get
    \/ gather_result
    \/ results_thread_join
    \/ example_closed

SpecExample == InitExample /\ [][NextExample]_vars

\* the main thread, the gathering thread and every worker process keep being
\* scheduled
FairSpecExample ==
    /\ SpecExample
    /\ WF_pool_vars(example_send \/ results_thread_join \/ example_closed)
    /\ WF_pool_vars(gather_get \/ gather_result)
    /\ \A w \in Workers : WF_pool_vars(example_run(w))

\* the for loop moving on to its next pass, as seen on the loop variable
LoopAdvances ==
    /\ smooth.active
    /\ smooth' = [smooth EXCEPT !.i = smooth.i + 1, !.active = smooth.i < smooth.steps]

\* a smooth loop that has been entered keeps running: nothing in it blocks
\* but time.sleep
FairSpecPTZ == SpecPTZ /\ WF_smooth(LoopAdvances)

(***************************************************************************)
(* Claims about the crop calculators (checked under SpecCrop)              *)
(***************************************************************************)
\* zoom >= 1 and both pan fractions in [0, 1]
InRange ==
    /\ zoom[1] >= zoom[2]
    /\ 0 <= pan_x[1] /\ pan_x[1] <= pan_x[2]
    /\ 0 <= pan_y[1] /\ pan_y[1] <= pan_y[2]

ReturnedRect(i) == crops[i].status = "ok"
AllReturnedRect == \A i \in Impls : ReturnedRect(i)

\* implementation i applied to the current arguments with other pan fractions
CropOf(i, px, py) ==
    CASE i = "eptz_demo" ->
            ePTZController_calculate_crop(sensor_size, output_size, zoom, px, py)
      [] i = "eptz_recording" ->
            eptz_recording_calculate_crop(sensor_size, output_size, zoom, px, py)
      [] i = "fpv_eptz_demo" ->
            fpv_eptz_demo_calculate_crop(sensor_size, output_size, zoom, px, py)
      [] i = "eptz_simple" ->
            eptz_simple_crop(sensor_size, output_size, zoom, px, py)
      [] i = "eptz_tracking" ->
            ObjectTracker_calculate_crop(sensor_size, output_size, zoom, px, py)

\* C2: for zoom >= 1 and pan in [0, 1], every rectangle any of the five
\* implementations returns has x, y, width and height all even.
C2_AllValuesEven ==
    InRange =>
        \A i \in Impls : ReturnedRect(i) =>
            \A k \in 1..4 : crops[i].rect[k] % 2 = 0

\* all five returned a non-empty rectangle placed off the origin, on a sensor of
\* odd width and height (so truncation and rounding both took part)
C2_Witness ==
    /\ InRange
    /\ AllReturnedRect
    /\ sensor_size[1] % 2 = 1 /\ sensor_size[2] % 2 = 1
    /\ \A i \in Impls : crops[i].rect[1] > 0 /\ crops[i].rect[3] > 0 /\ crops[i].rect[4] > 0

\* C3: for every positive zoom and every pan value (outside [0, 1] too), the
\* rectangle returned by eptz_recording.calculate_crop and by
\* ObjectTracker.calculate_crop lies inside the sensor.
C3_InsideSensor ==
    \A i \in {"eptz_recording", "eptz_tracking"} : ReturnedRect(i) =>
        LET r == crops[i].rect
        IN  /\ r[1] >= 0
            /\ r[2] >= 0
            /\ r[1] + r[3] <= sensor_size[1]
            /\ r[2] + r[4] <= sensor_size[2]

C5_PlacementFollowsPan ==
    InRange =>
        \A i \in Impls : ReturnedRect(i) =>
            LET r == crops[i].rect
                sw == sensor_size[1]
                sh == sensor_size[2]
            IN  /\ pan_x[1] = 0 => r[1] = 0
                /\ pan_y[1] = 0 => r[2] = 0
                /\ pan_x[1] = pan_x[2] => (0 <= sw - (r[1] + r[3]) /\ sw - (r[1] + r[3]) <= 2)
                /\ pan_y[1] = pan_y[2] => (0 <= sh - (r[2] + r[4]) /\ sh - (r[2] + r[4]) <= 2)
                /\ 2 * pan_x[1] = pan_x[2] => Abs(2 * r[1] + r[3] - sw) <= 4
                /\ 2 * pan_y[1] = pan_y[2] => Abs(2 * r[2] + r[4] - sh) <= 4
                /\ \A p \in Pans :
                      (pan_x[1] <= p[1] /\ p[1] <= p[2]) =>
                          CropOf(i, p, pan_y).rect[1] >= r[1]
                /\ \A p \in Pans :
                      (pan_y[1] <= p[1] /\ p[1] <= p[2]) =>
                          CropOf(i, pan_x, p).rect[2] >= r[2]

\* pan_x = 1.0 and pan_y = 0.0 at a zoom above 1: every implementation put the
\* rectangle off the left edge, and one of them leaves the full 2-pixel gap
C5_Witness ==
    /\ InRange
    /\ AllReturnedRect
    /\ zoom[1] > zoom[2]
    /\ pan_x[1] = pan_x[2] /\ pan_y[1] = 0
    /\ \A i \in Impls : crops[i].rect[1] > 0 /\ crops[i].rect[4] > 0
    /\ \E i \in Impls : sensor_size[1] - (crops[i].rect[1] + crops[i].rect[3]) = 2

\* C6 as stated: for zoom >= 1 and pan in [0, 1] all the implementations
\* return the identical rectangle.
C6_AllIdentical ==
    InRange =>
        \A i, j \in Impls : (ReturnedRect(i) /\ ReturnedRect(j)) => crops[i] = crops[j]

\* eptz_demo and fpv_eptz_demo shrink the height when the output is wider than
\* the sensor; the other three shrink the width when the truncated crop is wider
\* than the output.  Both rules pick the same dimension here:
SameDimensionReduced ==
    LET cw0 == IntDiv(sensor_size[1] * zoom[2], zoom[1])
        ch0 == IntDiv(sensor_size[2] * zoom[2], zoom[1])
    IN  (output_size[1] * sensor_size[2] > sensor_size[1] * output_size[2])
            <=> ~(cw0 * output_size[2] > output_size[1] * ch0)

\* C6 (amended): for zoom >= 1 and pan in [0, 1], eptz_demo and fpv_eptz_demo
\* return the identical rectangle, and eptz_recording, eptz_simple and
\* eptz_tracking return the identical rectangle; the two groups agree whenever
\* their aspect rules reduce the same dimension.
C6_IdenticalWithinFamilies ==
    InRange =>
        /\ \A i, j \in {"eptz_demo", "fpv_eptz_demo"} :
              (ReturnedRect(i) /\ ReturnedRect(j)) => crops[i] = crops[j]
        /\ \A i, j \in {"eptz_recording", "eptz_simple", "eptz_tracking"} :
              (crops[i].status # "not called" /\ crops[j].status # "not called")
                  => crops[i] = crops[j]
        /\ SameDimensionReduced =>
              \A i, j \in Impls : (ReturnedRect(i) /\ ReturnedRect(j)) => crops[i] = crops[j]

\* all five returned non-empty rectangles, equal within each group and
\* different between the groups
C6_Witness ==
    /\ InRange
    /\ AllReturnedRect
    /\ crops["eptz_demo"] # crops["eptz_recording"]
    /\ crops["eptz_demo"].rect[4] > 0
    /\ crops["eptz_recording"].rect[4] > 0
    /\ crops["eptz_recording"].rect[1] > 0

(***************************************************************************)
(* Claims about OverlayHelper (checked under SpecOverlay)                  *)
(***************************************************************************)
DrawOps == {"add_rectangle", "add_line", "add_circle", "add_text", "update_text"}

\* pixel p = <<x, y>> lies in the box b = <<x, y, width, height>>
InBox(p, b) ==
    /\ b[1] <= p[1] /\ p[1] < b[1] + b[3]
    /\ b[2] <= p[2] /\ p[2] < b[2] + b[4]

\* C1: when an add_* / update_text call re-uses a registered name with another
\* position or size, every pixel of the old bounding box outside the new one
\* is background when the call returns.
C1_OldBoxCleared ==
    [][ \A n \in Names :
          ( /\ last_call'.op \in DrawOps
            /\ last_call'.name = n
            /\ n \in DOMAIN elements
            /\ n \in DOMAIN elements'
            /\ get_bounds(elements'[n]) # get_bounds(elements[n]) )
          => \A p \in Pixels :
                (InBox(p, get_bounds(elements[n])) /\ ~InBox(p, get_bounds(elements'[n])))
                    => At(heap'[overlay'], p) = background_color
      ]_vars

\* C7: get_array hands out the one buffer allocated by the constructor: no
\* operation replaces or reallocates it, get_array changes nothing in the
\* helper, and an array obtained earlier is the buffer every later operation
\* draws into.
C7_CanvasByReference ==
    /\ [](array # 0 => (array = overlay /\ heap[array] = heap[overlay]))
    /\ [][overlay' = overlay /\ Len(heap') = Len(heap)]_vars
    /\ [][last_call'.op = "get_array"
            => UNCHANGED <<heap, overlay, elements, dirty_regions, update_count>>]_vars

\* a drawing call made after get_array, whose pixels show in the array handed out
C7_Witness ==
    /\ array # 0
    /\ last_call.op \in DrawOps
    /\ last_call.name \in DOMAIN elements
    /\ \E p \in Pixels : At(heap[array], p) = ColourOf(last_call.name)

\* C8: remove_element(name) on a registered name deletes its record and sets
\* exactly the pixels of its bounding box (those on the canvas) to background,
\* leaving every other pixel and every other record as it was; on an unknown
\* name it changes nothing.
C8_RemoveElement ==
    [][ last_call'.op = "remove_element" =>
          LET n == last_call'.name
          IN  IF n \in DOMAIN elements
              THEN /\ DOMAIN elements' = (DOMAIN elements) \ {n}
                   /\ \A m \in DOMAIN elements' : elements'[m] = elements[m]
                   /\ \A p \in Pixels :
                         At(heap'[overlay'], p) =
                             IF InBox(p, get_bounds(elements[n]))
                             THEN background_color
                             ELSE At(heap[overlay], p)
              ELSE UNCHANGED <<heap, overlay, elements, dirty_regions, update_count, array>>
      ]_vars

\* a registered element was removed while another element's pixels stay drawn
C8_Witness ==
    /\ last_call.op = "remove_element"
    /\ last_call.known
    /\ last_call.name \notin DOMAIN elements
    /\ DOMAIN elements # {}
    /\ \E p \in Pixels : At(heap[overlay], p) # background_color

\* C9: hide_element keeps the record, sets visible = False and clears its
\* bounding box; show_element only sets visible = True and leaves the canvas
\* alone; neither changes the set of registered names, and both do nothing for
\* an unknown name.
C9_HideShow ==
    [][ LET n == last_call'.name
        IN  /\ last_call'.op = "hide_element" =>
                  IF n \in DOMAIN elements
                  THEN /\ elements' = [elements EXCEPT ![n].visible = FALSE]
                       /\ \A p \in Pixels :
                             At(heap'[overlay'], p) =
                                 IF InBox(p, get_bounds(elements[n]))
                                 THEN background_color
                                 ELSE At(heap[overlay], p)
                  ELSE UNCHANGED <<heap, elements>>
            /\ last_call'.op = "show_element" =>
                  /\ heap' = heap
                  /\ IF n \in DOMAIN elements
                     THEN elements' = [elements EXCEPT ![n].visible = TRUE]
                     ELSE UNCHANGED elements
            /\ last_call'.op \in {"hide_element", "show_element"} =>
                  /\ DOMAIN elements' = DOMAIN elements
                  /\ UNCHANGED <<overlay, dirty_regions, update_count, array>>
      ]_vars

\* an element on the canvas was hidden and shown again: it is registered and
\* visible, and its bounding box is still blank
C9_Witness ==
    /\ last_call.op = "show_element"
    /\ last_call.known
    /\ elements[last_call.name].visible
    /\ \E p \in Pixels : InBox(p, get_bounds(elements[last_call.name]))
    /\ \A p \in Pixels :
          InBox(p, get_bounds(elements[last_call.name]))
              => At(heap[overlay], p) = background_color
    /\ \E p \in Pixels : At(heap[overlay], p) # background_color

\* C10: a drawing call on an already registered name does not grow the
\* helper's bookkeeping: len(elements) + len(dirty_regions) is no larger after
\* the call than before it.
C10_BookkeepingDoesNotGrow ==
    [][ (last_call'.op \in DrawOps /\ last_call'.name \in DOMAIN elements)
          => Cardinality(DOMAIN elements') + Len(dirty_regions')
                <= Cardinality(DOMAIN elements) + Len(dirty_regions)
      ]_vars

TextOps == {"add_text", "update_text"}
FPVTextOps == {"update_battery", "update_signal", "update_flight_mode"}

\* C11: without cv2, add_text and update_text raise nothing and leave the
\* canvas, the registry, dirty_regions and the update counter as they were;
\* so do FPVOverlay.update_battery, update_signal and update_flight_mode,
\* which leave the whole helper state untouched.
C11_TextSkippedWithoutCv2 ==
    [][ (~CV2_AVAILABLE /\ last_call'.op \in TextOps \cup FPVTextOps)
          => /\ UNCHANGED <<heap, overlay, elements, dirty_regions, update_count, array>>
             /\ last_call'.op \in TextOps => ~last_call'.raised
      ]_vars

\* without cv2, a text call on a helper that already shows something
C11_Witness ==
    /\ ~CV2_AVAILABLE
    /\ last_call.op \in TextOps
    /\ ~last_call.raised
    /\ last_call.name \notin DOMAIN elements
    /\ DOMAIN elements # {}
    /\ update_count > 0

(***************************************************************************)
(* Claims about ePTZController (checked under SpecPTZ)                     *)
(***************************************************************************)
\* C12: at every step, also between the passes of the smooth loops,
\* min_zoom <= zoom_factor <= max_zoom, 0 <= pan_x <= 1 and 0 <= pan_y <= 1.
C12_StateWithinLimits ==
    /\ RLe(min_zoom, zoom) /\ RLe(zoom, max_zoom)
    /\ RLe(Zero, pan_x) /\ RLe(pan_x, One)
    /\ RLe(Zero, pan_y) /\ RLe(pan_y, One)

\* the zoom has been driven to max_zoom and a pan to an end of its range, and
\* a smooth loop is between two passes
C12_Witness ==
    /\ zoom = max_zoom
    /\ pan_x = Zero
    /\ smooth.active
    /\ smooth.i > 0

\* r = <<x, y, width, height>>
InsideSensor(r) ==
    /\ r[1] >= 0 /\ r[2] >= 0
    /\ r[1] + r[3] <= sensor_size[1]
    /\ r[2] + r[4] <= sensor_size[2]

AllEven(r) == \A k \in 1..4 : r[k] % 2 = 0

StateChangingOps == {"zoom_in", "zoom_out", "pan_left", "pan_right", "tilt_up",
                     "tilt_down", "reset"}

\* C17: once a state-changing method (or a pass of a smooth loop) has run,
\* the ScalerCrop last sent is calculate_crop() of the current zoom_factor,
\* pan_x, pan_y, lies on the sensor and has four even components;
\* get_status() and calculate_crop() send nothing and change no state.
C17_CameraInSync ==
    /\ []( (ptz_call.op \in StateChangingOps \/ ptz_call.applied > 0)
            => /\ scaler_crop.status = "ok"
               /\ scaler_crop = ePTZController_calculate_crop(sensor_size, output_size,
                                                              zoom, pan_x, pan_y)
               /\ InsideSensor(scaler_crop.rect)
               /\ AllEven(scaler_crop.rect) )
    /\ [][ptz_call'.op \in {"get_status", "calculate_crop"}
            => /\ UNCHANGED <<zoom, pan_x, pan_y, scaler_crop, sensor_size, output_size>>
               /\ ptz_call'.applied = 0]_vars

\* zoomed and panned away from the reset state, with a crop off the origin sent
C17_Witness ==
    /\ ptz_call.op \in StateChangingOps
    /\ zoom # One
    /\ pan_x # Half
    /\ scaler_crop.status = "ok"
    /\ scaler_crop.rect[1] > 0
    /\ scaler_crop.rect[3] > 0

\* the values a smooth loop interpolates, before and after a step
SmoothValue == IF smooth.op = "zoom" THEN <<zoom>> ELSE <<pan_x, pan_y>>
SmoothValueNext == IF smooth.op = "zoom" THEN <<zoom'>> ELSE <<pan_x', pan_y'>>

Between(a, v, b) == (RLe(a, v) /\ RLe(v, b)) \/ (RLe(b, v) /\ RLe(v, a))

\* v has not moved away from target, coming from u
Toward(u, v, target, start) == IF RLe(start, target) THEN RLe(u, v) ELSE RLe(v, u)

RAbs(q) == <<Abs(q[1]), q[2]>>

\* C18 as stated: a smooth loop ends after steps + 1 passes; the first pass
\* applies the crop of the state before the call; every value assigned lies
\* between the start and the clamped target and does not move back; on
\* return the value equals the clamped target.
C18_SmoothReachesTarget ==
    /\ [][ (smooth.active /\ smooth'.i = smooth.i + 1) =>
            /\ smooth.i = 0 => SmoothValueNext = smooth.start
            /\ smooth'.active <=> smooth.i < smooth.steps
            /\ ptz_call'.applied = smooth.i + 1
            /\ \A k \in 1..Len(smooth.start) :
                  /\ Between(smooth.start[k], SmoothValueNext[k], smooth.target[k])
                  /\ Toward(SmoothValue[k], SmoothValueNext[k], smooth.target[k], smooth.start[k])
                  /\ ~smooth'.active => SmoothValueNext[k] = smooth.target[k]
         ]_vars
    /\ (smooth.active ~> ~smooth.active)

\* C18 as the code has it: the same, except that the last assignment
\* start + (target - start) * 1.0 is rounded, so the value on return (and
\* with it the range of the values on the way) is the clamped target up to
\* one unit in the last place of the larger of start and target.
C18_SmoothReachesTargetRounded ==
    /\ [][ (smooth.active /\ smooth'.i = smooth.i + 1) =>
            /\ smooth.i = 0 => SmoothValueNext = smooth.start
            /\ smooth'.active <=> smooth.i < smooth.steps
            /\ ptz_call'.applied = smooth.i + 1
            /\ \A k \in 1..Len(smooth.start) :
                  LET slack == RMax(Ulp(smooth.start[k]), Ulp(smooth.target[k]))
                      lo == RSub(RMin(smooth.start[k], smooth.target[k]), slack)
                      hi == RAdd(RMax(smooth.start[k], smooth.target[k]), slack)
                  IN  /\ RLe(lo, SmoothValueNext[k]) /\ RLe(SmoothValueNext[k], hi)
                      /\ Toward(SmoothValue[k], SmoothValueNext[k],
                                smooth.target[k], smooth.start[k])
                      /\ ~smooth'.active =>
                            RLe(RAbs(RSub(SmoothValueNext[k], smooth.target[k])), slack)
         ]_vars
    /\ (smooth.active ~> ~smooth.active)

\* a smooth_pan_to of MaxSteps steps has returned after MaxSteps + 1 crops,
\* with pan_x one rounding step off its target
C18_Witness ==
    /\ ~smooth.active
    /\ smooth.op = "pan"
    /\ smooth.steps = MaxSteps
    /\ smooth.i = MaxSteps + 1
    /\ ptz_call.applied = MaxSteps + 1
    /\ pan_x # smooth.target[1]
    /\ pan_y = smooth.target[2]

(***************************************************************************)
(* Claims about platform.py (checked under SpecPlatform)                   *)
(***************************************************************************)
NoDeviceExists == \A n \in 1..NumDevices : ~devices[n].exists

\* C13: the import never fails; once it is over, get_platform() is VC4 when
\* videodev2 is missing, when no device node exists, or when an exception was
\* raised while opening or querying a device; and every call of
\* get_platform() returns the same value, the one set during the import.
C13_ProbeNeverFails ==
    /\ [](platform_pc # "import failed")
    /\ [](platform_pc = "imported" =>
            /\ (~videodev2 \/ NoDeviceExists \/ probe_raised) => _platform = "VC4"
            /\ got_platform # "none" => got_platform = _platform)
    /\ [][platform_pc = "imported" => _platform' = _platform]_vars

\* a device raised during the probe, after an earlier device was skipped, and
\* get_platform() has answered VC4
C13_Witness ==
    /\ platform_pc = "imported"
    /\ probe_raised
    /\ num > 0
    /\ got_platform = "VC4"

\* the first device node, in ascending order, that exists and reports one of
\* the two ISP card names (0 if there is none)
FirstIsp ==
    LET isp == {n \in 1..NumDevices :
                    devices[n].exists /\ devices[n].card \in {"pispbe", "bcm2835-isp"}}
    IN  IF isp = {} THEN 0 ELSE CHOOSE n \in isp : \A m \in isp : n <= m

\* C16 as stated: after the import, get_platform() is PISP exactly if the
\* first existing device reporting "pispbe" or "bcm2835-isp" reports
\* "pispbe", and the scan has stopped at that device.
C16_PispIffFirstIsp ==
    platform_pc = "imported" =>
        /\ _platform = "PISP" <=> (FirstIsp # 0 /\ devices[FirstIsp].card = "pispbe")
        /\ FirstIsp # 0 => num + 1 = FirstIsp

\* the first device node that ends the scan: an existing one that raises or
\* reports one of the two ISP card names (0 if there is none)
FirstStop ==
    LET stop == {n \in 1..NumDevices :
                    /\ devices[n].exists
                    /\ devices[n].raises \/ devices[n].card \in {"pispbe", "bcm2835-isp"}}
    IN  IF stop = {} THEN 0 ELSE CHOOSE n \in stop : \A m \in stop : n <= m

\* C16 as the code has it: PISP exactly if videodev2 is there and the first
\* existing device that either raises or reports an ISP card name is one
\* that opens, answers the query and reports "pispbe"; the scan stops there.
C16_PispIffFirstStop ==
    platform_pc = "imported" =>
        /\ _platform = "PISP" <=>
              /\ videodev2
              /\ FirstStop # 0
              /\ ~devices[FirstStop].raises
              /\ devices[FirstStop].card = "pispbe"
        /\ (videodev2 /\ FirstStop # 0) => num + 1 = FirstStop
        /\ _platform \in {"VC4", "PISP"}

\* a device with another card name was skipped and the scan stopped at a
\* later "pispbe" device, although a "bcm2835-isp" device follows
C16_Witness ==
    /\ platform_pc = "imported"
    /\ _platform = "PISP"
    /\ num = 1
    /\ devices[1].exists /\ devices[1].card = "other"
    /\ devices[NumDevices].exists /\ devices[NumDevices].card = "bcm2835-isp"


(***************************************************************************)
(* The pool examples                                                       *)
(***************************************************************************)
RECURSIVE SumValues(_, _)
SumValues(dict, keys) ==
    IF keys = {} THEN 0
    ELSE LET k == CHOOSE x \in keys : TRUE
         IN dict[k] + SumValues(dict, keys \ {k})

\* C14: once the Pool block of remote_processing_pool.py has been left every
\* future is resolved, and the dict printed at the end has one key per worker
\* that ran a request (so at most Processes keys), each value is the number of
\* requests that worker ran, and the values add up to the number of requests
\* sent, whatever the assignment of requests to workers and the order in which
\* the workers finish.
C14_CountsPerWorker ==
    /\ main_pc \in {"closed", "done"} =>
            /\ Len(futures) = IMAGE_COUNT
            /\ \A i \in 1..Len(futures) : Resolved(futures[i])
    /\ main_pc = "done" =>
            /\ DOMAIN counts = {w \in Workers : handled[w] # {}}
            /\ Cardinality(DOMAIN counts) <= Processes
            /\ \A pid \in DOMAIN counts : counts[pid] = Cardinality(handled[pid])
            /\ SumValues(counts, DOMAIN counts) = IMAGE_COUNT

\* the program has printed counts for two workers, one of which ran several
\* requests with a request of the other worker sent in between
C14_Witness ==
    /\ main_pc = "done"
    /\ \E p, q \in DOMAIN counts :
            /\ p # q
            /\ counts[p] >= 2
            /\ \E a, b \in handled[p], c \in handled[q] : a < c /\ c < b

\* C15: in remote_processing_example.py the gathering thread takes the futures
\* off the queue in the order the requests were sent and prints each one's
\* result only once it is there; it takes exactly IMAGE_COUNT of them and then
\* returns, so that join() returns and the program ends.
C15_AllGathered ==
    /\ [](/\ received = [i \in 1..Len(received) |-> i]
          /\ Len(received) = gather_i
          /\ gather_pc = "done" => Len(received) = IMAGE_COUNT /\ futures = <<>>
          /\ main_pc \in {"exit", "done"} => gather_pc = "done")
    /\ <>(gather_pc = "done" /\ main_pc = "done")

\* the program has ended with every result gathered, and every worker ran some
\* request
C15_Witness ==
    /\ main_pc = "done"
    /\ gather_pc = "done"
    /\ received = [i \in Requests |-> i]
    /\ \A w \in Workers : handled[w] # {}


(***************************************************************************)
(* The recorded sequences                                                  *)
(***************************************************************************)
\* C19: in both recorded sequences the first crop a segment sends equals the
\* last crop the segment before it sent: the ScalerCrop values never jump
\* between segments.
C19_NoJumpBetweenSegments ==
    (/\ recording.program \in {"record_with_eptz_effects", "record_security_patrol"}
     /\ recording.segment >= 2
     /\ recording.i = 1)
        => scaler_crop = recording.previous


(***************************************************************************)
(* Dirty-region clearing                                                   *)
(***************************************************************************)
\* the colours a pixel may show: those of the registered elements whose box
\* covers it
LiveColours(els, p) == {ColourOf(n) : n \in {m \in DOMAIN els : InBox(p, get_bounds(els[m]))}}

\* C20: clear_dirty_regions never erases live content: after filled
\* add_rectangle calls, moves of a name onto a box overlapping its old one
\* included, and then clear_dirty_regions(), every pixel inside the current box
\* of a registered element still shows that element's colour or that of an
\* element drawn over it, dirty_regions is empty, and the clear has changed
\* only pixels inside the regions that were marked dirty.  (Any registered
\* element covering the pixel is accepted here as "drawn over it".)
C20_ClearKeepsLiveContent ==
    [][ last_call'.op = "clear_dirty_regions" =>
          /\ \A n \in DOMAIN elements' : \A p \in Pixels :
                InBox(p, get_bounds(elements'[n]))
                    => At(heap'[overlay'], p) \in LiveColours(elements', p)
          /\ dirty_regions' = <<>>
          /\ \A p \in Pixels :
                At(heap'[overlay'], p) # At(heap[overlay], p)
                    => \E k \in 1..Len(dirty_regions) : InBox(p, dirty_regions[k])
      ]_vars


(***************************************************************************)
(* Element names                                                           *)
(***************************************************************************)
\* a drawing call that stores its element: every one but a text call made
\* without cv2, which is skipped
Stores(call) == call.op \in DrawOps /\ (call.op \in TextOps => CV2_AVAILABLE)

\* C21: element names are unique identifiers.  get_stats()['elements'] counts
\* the distinct names added and not removed since: a drawing call with a new
\* name raises it by one, a drawing call with a name already there replaces
\* that name's record by one with visible = True and leaves the count alone,
\* remove_element of a name that is there lowers it by one, and remove_element
\* of an unknown name, hide_element, show_element and clear_dirty_regions leave
\* the set of names alone.  The records of the other names are kept by the
\* drawing calls and by remove_element.
C21_NamesAreUnique ==
    [][ LET n == last_call'.name
        IN  /\ (Stores(last_call') /\ n \notin DOMAIN elements) =>
                  /\ get_stats'.elements = get_stats.elements + 1
                  /\ DOMAIN elements' = DOMAIN elements \cup {n}
            /\ (Stores(last_call') /\ n \in DOMAIN elements) =>
                  /\ get_stats'.elements = get_stats.elements
                  /\ DOMAIN elements' = DOMAIN elements
            /\ Stores(last_call') =>
                  /\ elements'[n].visible
                  /\ \A m \in DOMAIN elements \ {n} : elements'[m] = elements[m]
            /\ (last_call'.op \in DrawOps /\ ~Stores(last_call')) =>
                  elements' = elements
            /\ (last_call'.op = "remove_element" /\ n \in DOMAIN elements) =>
                  /\ get_stats'.elements = get_stats.elements - 1
                  /\ DOMAIN elements' = DOMAIN elements \ {n}
                  /\ \A m \in DOMAIN elements' : elements'[m] = elements[m]
            /\ (last_call'.op = "remove_element" /\ n \notin DOMAIN elements) =>
                  elements' = elements
            /\ last_call'.op \in {"hide_element", "show_element", "clear_dirty_regions"} =>
                  /\ get_stats'.elements = get_stats.elements
                  /\ DOMAIN elements' = DOMAIN elements
      ]_vars

\* a name that was there has been drawn again: it is still the only element
\* and its record is visible
C21_Witness ==
    /\ last_call.op \in DrawOps
    /\ last_call.known
    /\ get_stats.elements = 1
    /\ get_stats.updates >= 2
    /\ elements[last_call.name].visible

====
